---- MODULE Spec2Model ----
(***************************************************************************)
(* The slicing job of streamlit_app.py: slice_with_fitz (PyMuPDF engine)   *)
(* and slice_with_pypdf (pypdf engine) as one state machine. The two       *)
(* functions share their control flow line for line; the variable engine   *)
(* (HAVE_FITZ) selects the engine-specific calls.                          *)
(*                                                                         *)
(* Lengths are Python floats in the source. They are held here as exact    *)
(* rationals [n, d] in lowest terms (d > 0), so that the divisions         *)
(* A4_W / scale and src_w / tile_w, the ceilings and the comparisons with  *)
(* 1 point are computed and not assumed; the rounding error of IEEE        *)
(* doubles (at most a few ulp per coordinate) is not modelled.             *)
(***************************************************************************)
EXTENDS Integers, Sequences, FiniteSets

(* ------------------------------ rationals ------------------------------ *)

RECURSIVE GCD(_, _)
GCD(a, b) == IF b = 0 THEN a ELSE GCD(b, a % b)

Abs(i) == IF i < 0 THEN -i ELSE i

Rat(n, d) ==
    LET g == GCD(Abs(n), d)
    IN  [n |-> n \div g, d |-> d \div g]

RInt(i) == [n |-> i, d |-> 1]

RAdd(a, b) == Rat(a.n * b.d + b.n * a.d, a.d * b.d)

RSub(a, b) == Rat(a.n * b.d - b.n * a.d, a.d * b.d)

RNeg(a) == [n |-> -a.n, d |-> a.d]

RMul(a, b) == Rat(a.n * b.n, a.d * b.d)

\* a / b for b > 0
RDiv(a, b) == Rat(a.n * b.d, a.d * b.n)

RLt(a, b) == a.n * b.d < b.n * a.d

RLe(a, b) == a.n * b.d <= b.n * a.d

\* Python's min(a, b) on numbers
RMin(a, b) == IF RLt(b, a) THEN b ELSE a

\* math.ceil of a rational: an integer
RCeil(a) == IF a.n % a.d = 0 THEN a.n \div a.d ELSE (a.n \div a.d) + 1

Max(a, b) == IF a > b THEN a ELSE b

Min(a, b) == IF a < b THEN a ELSE b

(* ------------------------------ constants ------------------------------ *)

A4_W == 595

A4_H == 842

HARD_PAGE_CAP == 800

\* st.slider("Scale", min_value=0.40, max_value=1.00, step=0.05): scale = k/20
Scales == {Rat(k, 20) : k \in 8..20}

(* ------------------------------- inputs -------------------------------- *)

\* The longest source document explored.
MaxPages == 2

\* Page sizes (width, height) in points.
PageSizeList ==
    << [w |-> RInt(595),  h |-> RInt(842)],
       [w |-> RInt(1190), h |-> RInt(1684)],
       [w |-> RInt(744),  h |-> Rat(4211, 2)],
       [w |-> RInt(595),  h |-> Rat(1, 2)],
       [w |-> Rat(2382975, 2), h |-> RInt(842)],
       [w |-> RInt(3570), h |-> RInt(842)] >>

\* A document of n pages: consecutive entries of PageSizeList from entry s on.
DocOf(n, s) ==
    [j \in 1..n |-> PageSizeList[((s + j - 2) % Len(PageSizeList)) + 1]]

\* The documents of the slicing jobs: no page, or one page of any size; the
\* page is asked for by its own index.
Docs == {DocOf(n, s) : n \in 0..1, s \in 1..Len(PageSizeList)}

PageIndexArgs == {0}

\* The documents and indices of the page selection: up to MaxPages pages, and
\* every index from one below the first page to one beyond the last.
IndexDocs == {DocOf(n, s) : n \in 0..MaxPages, s \in 1..Len(PageSizeList)}

IndexArgs == -1..MaxPages

IndexScales == {Rat(4, 5), RInt(1)}

\* The byte values found in tiny.samples, as a set: all white; white with a
\* near-white pixel; all black.
TinySamples == {{255}, {254, 255}, {0}}

Engines == {"fitz", "pypdf"}

(* -------------------------------- state -------------------------------- *)

VARIABLES
    engine,      \* HAVE_FITZ: which function runs the job
    doc,         \* the source document: the sequence of its pages' sizes
    scale,       \* the scale argument
    arg_index,   \* the page_index argument as passed
    pc,          \* "open", "plan", "row", "col", "save", "done", "failed"
    page_index,  \* the local page_index (reassigned by the clamp)
    src,         \* [w, h] of spage; zero before the page is accessed
    tile,        \* [w, h]: tile_w, tile_h
    rows, cols, total,
    r, c,        \* loop counters
    dst,         \* the output document: a sequence of output pages
    made,
    prog,        \* the values shown by the progress bar, in order
    err,         \* the exception raised, if any
    ret,         \* the tuple returned, if any
    created      \* every page ever created (new_page / add_blank_page), in order

inputs == <<engine, doc, scale, arg_index>>

plan == <<tile, rows, cols, total>>

vars == <<engine, doc, scale, arg_index, pc, page_index, src, tile, rows, cols,
          total, r, c, dst, made, prog, err, ret, created>>

NoErr == [kind |-> "none", total |-> 0, cap |-> 0]

NoRet == [set |-> FALSE, buf |-> <<>>, rows |-> 0, cols |-> 0, n |-> 0]

JobInit(docs, scales, indices) ==
    /\ engine \in Engines
    /\ doc \in docs
    /\ scale \in scales
    /\ arg_index \in indices
    /\ pc = "open"
    /\ page_index = arg_index
    /\ src = [w |-> RInt(0), h |-> RInt(0)]
    /\ tile = [w |-> RInt(0), h |-> RInt(0)]
    /\ rows = 0
    /\ cols = 0
    /\ total = 0
    /\ r = 0
    /\ c = 0
    /\ dst = <<>>
    /\ made = 0
    /\ prog = <<>>
    /\ err = NoErr
    /\ ret = NoRet
    /\ created = <<>>

Init == JobInit(Docs, Scales, PageIndexArgs)

IndexInit == JobInit(IndexDocs, IndexScales, IndexArgs)

(* ------------------------------- opening ------------------------------- *)

\* The clamp with its lower bound forgotten.
ClampIndexNoFloor(i, page_count) == Min(i, page_count - 1)

\* page_index = max(0, min(page_index, page_count - 1))
ClampIndex(i, page_count) == Max(0, Min(i, page_count - 1))

\* doc[i] / reader.pages[i]: Python indexing, negative indices count from the end
InRange(i, page_count) == -page_count <= i /\ i < page_count

PageAt(d, i) == IF i < 0 THEN d[Len(d) + i + 1] ELSE d[i + 1]

Open ==
    /\ pc = "open"
    /\ IF Len(doc) = 0
       THEN /\ err' = [kind |-> "EmptySource", total |-> 0, cap |-> 0]
            /\ pc' = "failed"
            /\ UNCHANGED <<page_index, src>>
       ELSE LET i == ClampIndex(page_index, Len(doc))
            IN  /\ page_index' = i
                /\ IF InRange(i, Len(doc))
                   THEN /\ src' = PageAt(doc, i)
                        /\ pc' = "plan"
                        /\ err' = err
                   ELSE /\ err' = [kind |-> "IndexError", total |-> 0, cap |-> 0]
                        /\ pc' = "failed"
                        /\ src' = src
    /\ UNCHANGED <<inputs, plan, r, c, dst, made, prog, ret, created>>

(* ------------------------------- planning ------------------------------ *)

TileW(s) == RDiv(RInt(A4_W), s)

TileH(s) == RDiv(RInt(A4_H), s)

GridCols(src_w, tile_w) == RCeil(RDiv(src_w, tile_w))

GridRows(src_h, tile_h) == RCeil(RDiv(src_h, tile_h))

Total(nrows, ncols) == nrows * ncols

\* The job with its cap check left out.
CapNeverExceeded(t) == FALSE

CapExceeded(t) == t > HARD_PAGE_CAP

Plan ==
    /\ pc = "plan"
    /\ LET tw == TileW(scale)
           th == TileH(scale)
           nc == GridCols(src.w, tw)
           nr == GridRows(src.h, th)
           t  == Total(nr, nc)
       IN  /\ tile' = [w |-> tw, h |-> th]
           /\ cols' = nc
           /\ rows' = nr
           /\ total' = t
           /\ IF CapExceeded(t)
              THEN /\ err' = [kind |-> "CapacityExceeded", total |-> t,
                              cap |-> HARD_PAGE_CAP]
                   /\ pc' = "failed"
                   /\ UNCHANGED <<dst, prog, made, r>>
              ELSE /\ dst' = <<>>
                   /\ prog' = <<RInt(0)>>
                   /\ made' = 0
                   /\ r' = 0
                   /\ pc' = "row"
                   /\ err' = err
    /\ UNCHANGED <<inputs, page_index, src, c, ret, created>>

(* ------------------------------- geometry ------------------------------ *)

\* top = r * tile_h
TileTop(row, tile_h) == RMul(RInt(row), tile_h)

\* bottom = min(top + tile_h, src_h)
TileBottom(row, tile_h, src_h) == RMin(RAdd(TileTop(row, tile_h), tile_h), src_h)

\* left = c * tile_w
TileLeft(col, tile_w) == RMul(RInt(col), tile_w)

\* The right edge without the clip to the source width.
TileRightNoClip(col, tile_w, src_w) == RAdd(TileLeft(col, tile_w), tile_w)

\* right = min(left + tile_w, src_w)
TileRight(col, tile_w, src_w) == RMin(RAdd(TileLeft(col, tile_w), tile_w), src_w)

\* fitz.Rect(left, top, right, bottom) of tile (row, col), top-left origin
Clip(row, col) ==
    [left   |-> TileLeft(col, tile.w),
     top    |-> TileTop(row, tile.h),
     right  |-> TileRight(col, tile.w, src.w),
     bottom |-> TileBottom(row, tile.h, src.h)]

\* The degenerate test against 0 instead of 1 point.
DegenerateBelowZero(extent) == RLt(extent, RInt(0))

\* if bottom - top < 1 / if right - left < 1
Degenerate(extent) == RLt(extent, RInt(1))

(* ------------------------------ placement ------------------------------ *)

\* The transform with the translation applied before the scaling.
PypdfTranslateFirst(s, tx, ty, p) ==
    [x |-> RMul(s, RAdd(p.x, tx)), y |-> RMul(s, RAdd(p.y, ty))]

\* Transformation().scale(s).translate(tx, ty) applied to a point p of the
\* source page (PDF coordinates, origin bottom-left): scale, then translate.
PypdfTransform(s, tx, ty, p) ==
    [x |-> RAdd(RMul(s, p.x), tx), y |-> RAdd(RMul(s, p.y), ty)]

\* The pypdf engine's placement of tile clip: where the tile's bottom-left
\* and top-right corners land on the output page (PDF coordinates).
PypdfPlace(clip) ==
    LET y_bottom_bl == RSub(src.h, clip.bottom)
        tx == RMul(RNeg(clip.left), scale)
        ty == RMul(RNeg(y_bottom_bl), scale)
    IN  [bl |-> PypdfTransform(scale, tx, ty, [x |-> clip.left, y |-> y_bottom_bl]),
         tr |-> PypdfTransform(scale, tx, ty,
                               [x |-> clip.right, y |-> RSub(src.h, clip.top)])]

\* show_pdf_page(Rect(0, 0, w, h), ..., clip=clip, keep_proportion=False)
\* applied to a point p of the source page (top-left origin): the clip is
\* stretched onto the target rectangle, each axis by its own factor. The
\* result is given in PDF coordinates of the output page (origin bottom-left).
FitzShow(w, h, clip, p) ==
    [x |-> RDiv(RMul(RSub(p.x, clip.left), RInt(w)), RSub(clip.right, clip.left)),
     y |-> RSub(RInt(h),
                RDiv(RMul(RSub(p.y, clip.top), RInt(h)),
                     RSub(clip.bottom, clip.top)))]

FitzPlace(clip) ==
    [bl |-> FitzShow(A4_W, A4_H, clip, [x |-> clip.left, y |-> clip.bottom]),
     tr |-> FitzShow(A4_W, A4_H, clip, [x |-> clip.right, y |-> clip.top])]

\* The output page made for tile (row, col).
NewPage(row, col) ==
    LET clip == Clip(row, col)
        at   == IF engine = "fitz" THEN FitzPlace(clip) ELSE PypdfPlace(clip)
    IN  [r |-> row, c |-> col, bl |-> at.bl, tr |-> at.tr]

(* ----------------------------- blank pruning --------------------------- *)

\* A fuzzy threshold: near-white counts as white.
IsBlankNearWhite(samples) == \A b \in samples : b >= 250

\* all(b == 255 for b in tiny.samples)
IsBlank(samples) == \A b \in samples : b = 255

\* delete_page removing the first page instead of the one asked for.
DeletePageFirst(d, pno) == SubSeq(d, 2, Len(d))

\* delete_page removing nothing.
DeletePageNone(d, pno) == d

\* dst.delete_page(pno): Python page numbers, negative ones count from the end
DeletePage(d, pno) ==
    LET k == IF pno < 0 THEN Len(d) + pno + 1 ELSE pno + 1
    IN  SubSeq(d, 1, k - 1) \o SubSeq(d, k + 1, Len(d))

\* What the tiny render of a new page can show. pypdf renders nothing.
SamplesOf(e) == IF e = "fitz" THEN TinySamples ELSE {{}}

(* ------------------------------- progress ------------------------------ *)

\* if made % 5 == 0 or made == total
ReportDue(m, t) == m % 5 = 0 \/ m = t

(* ------------------------------ render loop ---------------------------- *)

\* for r in range(rows): top, bottom, the degenerate-row skip
RowStep ==
    /\ pc = "row"
    /\ IF r = rows
       THEN /\ pc' = "save"
            /\ UNCHANGED <<r, c>>
       ELSE LET top    == TileTop(r, tile.h)
                bottom == TileBottom(r, tile.h, src.h)
            IN  IF Degenerate(RSub(bottom, top))
                THEN /\ r' = r + 1
                     /\ UNCHANGED <<pc, c>>
                ELSE /\ c' = 0
                     /\ pc' = "col"
                     /\ r' = r
    /\ UNCHANGED <<inputs, plan, page_index, src, dst, made, prog, err, ret, created>>

\* The body of the column loop for a valid tile, its tiny render showing s.
Render(s) ==
    LET page == NewPage(r, c)
        d1   == Append(dst, page)
        m    == made + 1
    IN  /\ created' = Append(created, [r |-> r, c |-> c, samples |-> s])
        /\ dst' = IF engine = "fitz" /\ IsBlank(s) THEN DeletePage(d1, -1) ELSE d1
        /\ made' = m
        /\ prog' = IF ReportDue(m, total) THEN Append(prog, Rat(m, total)) ELSE prog

\* for c in range(cols): left, right, the degenerate-column skip, the tile
TileStep ==
    /\ pc = "col"
    /\ IF c = cols
       THEN /\ r' = r + 1
            /\ pc' = "row"
            /\ UNCHANGED <<c, dst, made, prog, created>>
       ELSE LET left  == TileLeft(c, tile.w)
                right == TileRight(c, tile.w, src.w)
            IN  /\ c' = c + 1
                /\ UNCHANGED <<r, pc>>
                /\ IF Degenerate(RSub(right, left))
                   THEN UNCHANGED <<dst, made, prog, created>>
                   ELSE \E s \in SamplesOf(engine) : Render(s)
    /\ UNCHANGED <<inputs, plan, page_index, src, err, ret>>

(* -------------------------------- saving ------------------------------- *)

\* dst.save(tmp_path): PyMuPDF refuses to save a document without pages
\* (ValueError "cannot save with zero pages"); pypdf's writer.write does not.
SaveFails(e, d) == e = "fitz" /\ Len(d) = 0

Save ==
    /\ pc = "save"
    /\ IF SaveFails(engine, dst)
       THEN /\ err' = [kind |-> "ZeroPageSave", total |-> 0, cap |-> 0]
            /\ pc' = "failed"
            /\ ret' = ret
       ELSE /\ ret' = [set |-> TRUE, buf |-> dst, rows |-> rows, cols |-> cols,
                       n |-> Len(dst)]
            /\ pc' = "done"
            /\ err' = err
    /\ UNCHANGED <<inputs, plan, page_index, src, r, c, dst, made, prog, created>>

(* ---------------------------- specification ---------------------------- *)

Next == Open \/ Plan \/ RowStep \/ TileStep \/ Save

Spec == Init /\ [][Next]_vars

\* The same job, started on longer documents with every kind of page index.
IndexSpec == IndexInit /\ [][Next]_vars

(* ------------------------- vocabulary of the claims -------------------- *)

\* The grid has been computed (lines 27-32 have run).
Planned == pc \in {"row", "col", "save", "done"}
           \/ (pc = "failed" /\ err.kind \in {"CapacityExceeded", "ZeroPageSave"})

\* The render loop has run to its end.
LoopDone == pc \in {"save", "done"} \/ (pc = "failed" /\ err.kind = "ZeroPageSave")

Grid == (0..(rows - 1)) \X (0..(cols - 1))

Width(t) == RSub(Clip(t[1], t[2]).right, Clip(t[1], t[2]).left)

Height(t) == RSub(Clip(t[1], t[2]).bottom, Clip(t[1], t[2]).top)

\* The tiles of the grid with both extents of at least 1 point.
ValidTiles == {t \in Grid : RLe(RInt(1), Width(t)) /\ RLe(RInt(1), Height(t))}

\* Row-major order on tiles.
Precedes(t, u) == t[1] < u[1] \/ (t[1] = u[1] /\ t[2] < u[2])

TileOf(p) == <<p.r, p.c>>

TilesIn(d) == {TileOf(d[i]) : i \in 1..Len(d)}

RowMajor(d) == \A i, j \in 1..Len(d) : i < j => Precedes(TileOf(d[i]), TileOf(d[j]))

\* The tiles whose tiny render showed only the value 255.
AllWhiteTiles ==
    {TileOf(created[i]) : i \in {j \in 1..Len(created) :
                                   \A b \in created[j].samples : b = 255}}

Origin == [x |-> RInt(0), y |-> RInt(0)]

PageCorner == [x |-> RInt(A4_W), y |-> RInt(A4_H)]

(* --------------------------------- C1 ----------------------------------- *)

\* C1: whenever rows*cols exceeds the page cap, the job has failed with the
\* capacity error carrying rows*cols and the cap, and nothing of the render
\* loop has happened: no output page was created or kept, no tile was counted,
\* the progress bar was never opened and nothing is returned.
C1_CapFailsFast ==
    (Planned /\ rows * cols > HARD_PAGE_CAP) =>
        /\ pc = "failed"
        /\ err = [kind |-> "CapacityExceeded", total |-> rows * cols,
                  cap |-> HARD_PAGE_CAP]
        /\ created = <<>>
        /\ dst = <<>>
        /\ made = 0
        /\ prog = <<>>
        /\ ~ret.set

C1_Witness ==
    /\ pc = "failed"
    /\ err.kind = "CapacityExceeded"
    /\ rows * cols > HARD_PAGE_CAP

(* --------------------------------- C2 ----------------------------------- *)

\* C2: the output pages are in row-major order at every point of the job and
\* in the returned document, and every step leaves the pages already in the
\* output where they are: it either keeps the sequence or appends one page.
C2_RowMajorOrder ==
    /\ [](RowMajor(dst) /\ RowMajor(ret.buf) /\ TilesIn(dst) \subseteq Grid)
    /\ [][dst' = dst \/ (Len(dst') = Len(dst) + 1
                         /\ SubSeq(dst', 1, Len(dst)) = dst)]_vars

\* Two surviving pages with a pruned page between them.
C2_Witness ==
    /\ pc = "done"
    /\ Len(ret.buf) >= 2
    /\ \E i \in 1..Len(created) :
          /\ TileOf(created[i]) \notin TilesIn(ret.buf)
          /\ Precedes(TileOf(ret.buf[1]), TileOf(created[i]))
          /\ Precedes(TileOf(created[i]), TileOf(ret.buf[Len(ret.buf)]))

(* --------------------------------- C3 ----------------------------------- *)

\* C3: with the PyMuPDF engine, a page that was created is absent from the
\* output exactly when every sampled pixel of its tiny render is 255; in the
\* returned document this holds of every valid tile of the grid.
C3_BlankPruningExact ==
    engine = "fitz" =>
        /\ \A i \in 1..Len(created) :
              (TileOf(created[i]) \notin TilesIn(dst))
                  <=> (\A b \in created[i].samples : b = 255)
        /\ pc = "done" =>
              \A t \in ValidTiles :
                  /\ \E i \in 1..Len(created) : TileOf(created[i]) = t
                  /\ (t \notin TilesIn(ret.buf)) <=> (t \in AllWhiteTiles)

\* A returned document with a near-white tile kept and a white tile pruned.
C3_Witness ==
    /\ engine = "fitz"
    /\ pc = "done"
    /\ \E i, j \in 1..Len(created) :
          /\ created[i].samples = {254, 255}
          /\ TileOf(created[i]) \in TilesIn(ret.buf)
          /\ created[j].samples = {255}
          /\ TileOf(created[j]) \notin TilesIn(ret.buf)

(* --------------------------------- C4 ----------------------------------- *)

\* C4: a job whose render loop ends with no surviving output page fails and
\* returns nothing; no document with zero pages is ever returned.
C4_NoEmptyDocument ==
    (pc \in {"done", "failed"} /\ LoopDone /\ dst = <<>>) =>
        (pc = "failed" /\ ~ret.set)

(* --------------------------------- C5 ----------------------------------- *)

\* The intervals [lo(i), hi(i)], i = 0..n-1, partition [0, len]: the first
\* starts at 0, each ends where the next starts, the last ends at len, and
\* each has positive length.
Partitions(n, lo(_), hi(_), len) ==
    /\ n >= 1
    /\ lo(0) = RInt(0)
    /\ hi(n - 1) = len
    /\ \A i \in 0..(n - 1) :
          /\ RLt(lo(i), hi(i))
          /\ RLe(hi(i), len)
          /\ i < n - 1 => hi(i) = lo(i + 1)

C6_TileFillsPage ==
    \A i \in 1..Len(dst) : dst[i].bl = Origin /\ dst[i].tr = PageCorner

\* C6 as amended: every output page has its tile's bottom-left corner at the
\* page origin. With the pypdf engine (scale, then translate) the top-right
\* corner lands at (scale*(right-left), scale*(bottom-top)), which lies on the
\* page and is (595, 842) exactly when the tile is not clipped by the source
\* bounds; with the PyMuPDF engine (show_pdf_page, keep_proportion=False) it
\* lands at (595, 842) for every tile.
C6_PlacementOfTile ==
    \A i \in 1..Len(dst) :
        LET p == dst[i]
            t == TileOf(p)
        IN  /\ p.bl = Origin
            /\ engine = "fitz" => p.tr = PageCorner
            /\ engine = "pypdf" =>
                  /\ p.tr = [x |-> RMul(scale, Width(t)), y |-> RMul(scale, Height(t))]
                  /\ RLe(p.tr.x, PageCorner.x)
                  /\ RLe(p.tr.y, PageCorner.y)
                  /\ (p.tr.x = PageCorner.x) <=> (Width(t) = tile.w)
                  /\ (p.tr.y = PageCorner.y) <=> (Height(t) = tile.h)

\* A pypdf document with a full tile and a tile clipped in both axes.
C6_Witness ==
    /\ engine = "pypdf"
    /\ \E i, j \in 1..Len(dst) :
          /\ dst[i].tr = PageCorner
          /\ RLt(dst[j].tr.x, PageCorner.x)
          /\ RLt(dst[j].tr.y, PageCorner.y)

(* --------------------------------- C7 ----------------------------------- *)

\* C7: a returned page count is the number of valid tiles whose page was not
\* discarded as blank (every valid tile with the pypdf engine, which discards
\* none: 4 for a 1190 x 1684 source at scale 0.80); it is at most rows*cols,
\* which is at most the cap; the returned rows and cols are the planned grid.
C7_PageCount ==
    pc = "done" =>
        /\ ret.set
        /\ ret.n = Cardinality(IF engine = "fitz"
                               THEN ValidTiles \ AllWhiteTiles
                               ELSE ValidTiles)
        /\ ret.n = Len(ret.buf)
        /\ ret.n <= rows * cols
        /\ rows * cols <= HARD_PAGE_CAP
        /\ ret.rows = RCeil(RDiv(src.h, RDiv(RInt(A4_H), scale)))
        /\ ret.cols = RCeil(RDiv(src.w, RDiv(RInt(A4_W), scale)))
        /\ (/\ engine = "pypdf"
            /\ src = [w |-> RInt(1190), h |-> RInt(1684)]
            /\ scale = Rat(4, 5))
           => (ret.n = 4 /\ ret.rows = 2 /\ ret.cols = 2)

\* A returned count below the planned grid: a degenerate tile and a pruned one.
C7_Witness ==
    /\ pc = "done"
    /\ engine = "fitz"
    /\ Cardinality(ValidTiles) < rows * cols
    /\ ret.n < Cardinality(ValidTiles)

(* --------------------------------- C8 ----------------------------------- *)

\* The page the job is to slice: max(0, min(arg_index, page_count - 1)).
Clamped ==
    IF arg_index < 0 THEN 0
    ELSE IF arg_index > Len(doc) - 1 THEN Len(doc) - 1
    ELSE arg_index

\* C8: once a document with pages is opened, the page sliced is the clamped
\* one, whatever the index passed, and no failure is due to the index; a
\* document without pages fails as an empty source with the index unclamped
\* and no page accessed.
C8_IndexClamped ==
    pc # "open" =>
        IF Len(doc) > 0
        THEN /\ page_index = Clamped
             /\ src = doc[Clamped + 1]
             /\ err.kind \notin {"IndexError", "EmptySource"}
        ELSE /\ pc = "failed"
             /\ err.kind = "EmptySource"
             /\ page_index = arg_index
             /\ src.w = RInt(0)
             /\ src.h = RInt(0)

\* An index beyond the last page of a longer document: the last page is sliced.
C8_Witness ==
    /\ pc = "done"
    /\ Len(doc) >= 2
    /\ arg_index >= Len(doc)
    /\ page_index = Len(doc) - 1
    /\ src # doc[1]

(* --------------------------------- C9 ----------------------------------- *)

\* C9: when the render loop has ended, a report was made after every 5th
\* processed tile and the last report is the one of completion, made/total;
\* the reported fractions increase strictly and lie in [0, 1].
C9_ProgressReported ==
    /\ LoopDone =>
          /\ prog[Len(prog)] = Rat(made, total)
          /\ \A m \in 1..made :
                m % 5 = 0 => \E i \in 1..Len(prog) : prog[i] = Rat(m, total)
    /\ \A i \in 1..Len(prog) :
          /\ RLe(RInt(0), prog[i])
          /\ RLe(prog[i], RInt(1))
          /\ i < Len(prog) => RLt(prog[i], prog[i + 1])

(* --------------------------------- C10 ---------------------------------- *)

\* The tiles the loop has passed: those before (r, c) in row-major order.
Passed ==
    {t \in Grid : \/ LoopDone
                  \/ (pc \in {"row", "col"} /\ t[1] < r)
                  \/ (pc = "col" /\ t[1] = r /\ t[2] < c)}

\* C10: every page created belongs to a tile of at least 1 point in both
\* extents, every such tile the loop has passed got its page created (all of
\* them once the loop has ended), and no page is created in a row of height
\* below 1 point.
C10_OnlyValidTilesRendered ==
    Planned =>
        /\ \A i \in 1..Len(created) :
              /\ RLe(RInt(1), Width(TileOf(created[i])))
              /\ RLe(RInt(1), Height(TileOf(created[i])))
        /\ \A t \in Passed :
              t \in ValidTiles => \E i \in 1..Len(created) : TileOf(created[i]) = t
        /\ \A row \in 0..(rows - 1) :
              RLt(RSub(TileBottom(row, tile.h, src.h), TileTop(row, tile.h)), RInt(1))
                  => \A i \in 1..Len(created) : created[i].r # row

\* A finished loop that skipped a degenerate column and a whole degenerate row.
C10_Witness ==
    /\ LoopDone
    /\ created # <<>>
    /\ \E t \in Grid : RLt(Width(t), RInt(1)) /\ ~RLt(Height(t), RInt(1))
    /\ \E t \in Grid : RLt(Height(t), RInt(1))

====
